---------------------------- MODULE Spec2Model ----------------------------
(***************************************************************************)
(* The retriv bridge (src/src/modules/cost-monitor/retriv_bridge.py): a    *)
(* single-threaded loop that reads one command per line from stdin,        *)
(* dispatches it to process_index_command or process_search_command and    *)
(* prints one response line.  The process-wide state is the pair of       *)
(* globals bm25_instance and indexed.                                      *)
(*                                                                         *)
(* The BM25 class is an external library.  It is modelled by its           *)
(* interface: a constructor that stores the configuration, index(docs)     *)
(* that either completes or raises, and search(query) that either raises   *)
(* or returns one score per document the instance holds, aligned by        *)
(* position.  Which of these happens is a nondeterministic choice.         *)
(***************************************************************************)
EXTENDS Integers, Sequences, FiniteSets, TLC

(***************************************************************************)
(* Bounds of the model.                                                    *)
(***************************************************************************)
MaxLines == 3
MaxDocs == 2
MaxScore == 1

(***************************************************************************)
(* Program constants: the defaults of the .get() calls.  k1, b and epsilon *)
(* are kept in hundredths (1.5 is 150).                                    *)
(***************************************************************************)
DefaultK1 == 150
DefaultB == 75
DefaultEpsilon == 25
DefaultTopK == 5

(***************************************************************************)
(* JSON values as json.loads returns them.  Each kind has its own field    *)
(* name, so values of different kinds are comparable.                      *)
(***************************************************************************)
Str(s) == [str |-> s]
Num(n) == [num |-> n]
Arr(a) == [arr |-> a]
Obj(f) == [obj |-> f]
Null == [null |-> TRUE]

IsStr(v) == DOMAIN v = {"str"}
IsNum(v) == DOMAIN v = {"num"}
IsArr(v) == DOMAIN v = {"arr"}
IsObj(v) == DOMAIN v = {"obj"}
IsNull(v) == DOMAIN v = {"null"}

\* Python truth value of a JSON value (`if documents:`, `if not query:`).
Truthy(v) ==
    IF IsStr(v) THEN v.str /= ""
    ELSE IF IsNum(v) THEN v.num /= 0
    ELSE IF IsArr(v) THEN v.arr /= << >>
    ELSE IF IsObj(v) THEN DOMAIN v.obj /= {}
    ELSE FALSE

\* dict.get(key, default) on a JSON object.
Get(d, key, default) ==
    IF key \in DOMAIN d.obj THEN d.obj[key] ELSE default

\* type(v).__name__, as it appears in an AttributeError message.
PyTypeName(v) ==
    IF IsStr(v) THEN "str"
    ELSE IF IsNum(v) THEN "int"
    ELSE IF IsArr(v) THEN "list"
    ELSE IF IsObj(v) THEN "dict"
    ELSE "NoneType"

\* str(e) of the AttributeError raised by v.get(...) when v is not a dict.
AttributeErrorMessage(v) ==
    "'" \o PyTypeName(v) \o "' object has no attribute 'get'"

\* str(v) as an f-string renders it; the model's action values are strings
\* or null.
PyStr(v) ==
    IF IsStr(v) THEN v.str
    ELSE IF IsNull(v) THEN "None"
    ELSE PyTypeName(v)

(***************************************************************************)
(* Input lines.  A line is its surrounding whitespace and its payload:     *)
(* nothing, text that is not JSON, or the text of a JSON value.            *)
(***************************************************************************)
Blank == [blank |-> TRUE]
Garbage == [garbage |-> TRUE]
Json(v) == [json |-> v]

\* line.strip()
Strip(l) == l.payload

\* variant: the test without the strip
IsBlankLine_NoStrip(l) == l.ws = 0 /\ l.payload = Blank

\* `not line` after the strip
IsBlankLine(l) == Strip(l) = Blank

\* json.loads(line) raises JSONDecodeError
ParseFails(l) == DOMAIN Strip(l) /= {"json"}

\* json.loads(line)
Parse(l) == Strip(l).json

\* What main makes of a line: skipped, rejected by json.loads, rejected by
\* command.get, or dispatched on its action.
LineKind(l) ==
    IF "blank" \in DOMAIN l.payload THEN "blank"
    ELSE IF "garbage" \in DOMAIN l.payload THEN "malformed"
    ELSE IF ~IsObj(l.payload.json) THEN "notobject"
    ELSE IF "action" \notin DOMAIN l.payload.json.obj THEN "other"
    ELSE IF l.payload.json.obj.action = Str("index") THEN "index"
    ELSE IF l.payload.json.obj.action = Str("search") THEN "search"
    ELSE "other"

(***************************************************************************)
(* The inputs the model feeds to the loop.  Numbers under "options" are in *)
(* hundredths, like the defaults; the number under "topK" is an integer.   *)
(***************************************************************************)
Corpus == [i \in 1..MaxDocs |-> Str(IF i % 2 = 1 THEN "alpha" ELSE "beta")]

DocSeqs == {SubSeq(Corpus, 1, n) : n \in 0..MaxDocs}

DocumentsFields == {<< >>} \cup {"documents" :> Arr(s) : s \in DocSeqs}

OptionsFields == {<< >>, "options" :> Obj("k1" :> Num(200))}

OddOptionsFields ==
    {"options" :> Obj(("b" :> Num(50)) @@ ("epsilon" :> Num(10))),
     "options" :> Num(5)}

QueryFields == {<< >>, "query" :> Str(""), "query" :> Str("q")}

TopKFields ==
    {"topK" :> Null, "topK" :> Str("1")}
    \cup {"topK" :> Num(k) : k \in {-1, 0, 1}}

IndexCommands ==
    {Obj(("action" :> Str("index")) @@ d @@ o) :
        d \in DocumentsFields, o \in OptionsFields}
    \cup {Obj(("action" :> Str("index")) @@ ("documents" :> Arr(s)) @@ o) :
            s \in {SubSeq(Corpus, 1, n) : n \in 0..1},
            o \in OddOptionsFields}

SearchCommands ==
    {Obj(("action" :> Str("search")) @@ q) : q \in QueryFields}
    \cup {Obj(("action" :> Str("search")) @@ ("query" :> Str("q")) @@ k) :
            k \in TopKFields}

OtherCommands ==
    {Obj(<< >>), Obj("action" :> Str("reset")), Obj("action" :> Null)}

NonObjects == {Arr(<< >>), Null}

Payloads ==
    {Blank, Garbage}
    \cup {Json(v) : v \in IndexCommands \cup SearchCommands
                            \cup OtherCommands \cup NonObjects}

Lines ==
    {[ws |-> 0, payload |-> p] : p \in Payloads}
    \cup {[ws |-> 1, payload |-> p] : p \in {Blank, Json(Obj(<< >>))}}

\* str(e) of what BM25.index and BM25.search raise when they fail.
BuildFailures == {"index failed"}
SearchFailures == {"search failed"}

(***************************************************************************)
(* Output lines: a bare token or the JSON text of an object.               *)
(***************************************************************************)
Text(s) == [text |-> s]
JsonLine(o) == [json |-> o]

ReadyToken == Text("RETRIV_READY")
IndexComplete == Text("INDEX_COMPLETE")
NoDocumentsResponse ==
    JsonLine([error |-> "No documents provided for indexing"])
NotIndexedResponse ==
    JsonLine([action |-> "search_results", results |-> << >>,
              error |-> "No documents have been indexed yet"])
EmptyQueryResponse ==
    JsonLine([action |-> "search_results", results |-> << >>,
              error |-> "Empty query provided"])
\* variant: the except clause leaves "results" out
SearchFailedResponse_NoResults(msg) ==
    JsonLine([action |-> "search_results", error |-> msg])

SearchFailedResponse(msg) ==
    JsonLine([action |-> "search_results", results |-> << >>, error |-> msg])
SearchResultsResponse(formatted_results) ==
    JsonLine([action |-> "search_results", results |-> formatted_results])
UnknownActionResponse(action) ==
    JsonLine([error |-> "Unknown action: " \o PyStr(action)])
InvalidJsonResponse == JsonLine([error |-> "Invalid JSON command"])
GenericErrorResponse(msg) == JsonLine([error |-> msg])

(***************************************************************************)
(* The BM25 object.  docs is what the instance holds: nothing after the    *)
(* constructor, the whole sequence after index() returned, any prefix of   *)
(* it after index() raised.                                                *)
(***************************************************************************)
None == [none |-> TRUE]

BM25(k1, b, epsilon) ==
    [k1 |-> k1, b |-> b, epsilon |-> epsilon, docs |-> << >>,
     complete |-> FALSE]

\* bm25_instance.index(documents) returned
BM25Indexed(inst, documents) ==
    [inst EXCEPT !.docs = documents, !.complete = TRUE]

\* bm25_instance.index(documents) raised after taking in k documents
BM25Partial(inst, documents, k) ==
    [inst EXCEPT !.docs = SubSeq(documents, 1, k)]

\* bm25_instance.search(query): raises, or one score per held document
BM25Search(inst) ==
    {[raise |-> m] : m \in SearchFailures}
    \cup {[scores |-> s] : s \in [1..Len(inst.docs) -> 0..MaxScore]}

(***************************************************************************)
(* The state.  bm25_instance and indexed are the module's globals, pc is   *)
(* main's position and line its loop variable.  stdout is the output       *)
(* stream, kept as the number of lines written, the first and the latest.  *)
(* The rest records the run: nread and nblank count the lines read and the *)
(* blank ones among them, builds counts the bm25_instance.index calls that *)
(* returned, lastBuilt is the instance as the latest of them left it,      *)
(* lastCall is what bm25_instance.search did for the latest line (None     *)
(* when it was not called), and pre is the state main was in when it read  *)
(* the latest line.                                                        *)
(***************************************************************************)
VARIABLES pc, line, nread, nblank, stdout, bm25_instance, indexed,
          builds, lastBuilt, lastCall, pre

vars == <<pc, line, nread, nblank, stdout, bm25_instance, indexed,
          builds, lastBuilt, lastCall, pre>>

\* print(r) on the stream out
Write(out, r) ==
    [n |-> out.n + 1, first |-> IF out.n = 0 THEN r ELSE out.first,
     last |-> r]

\* the prints of a sequence of lines, in order
RECURSIVE WriteAll(_, _)
WriteAll(out, rs) ==
    IF rs = << >> THEN out ELSE WriteAll(Write(out, Head(rs)), Tail(rs))

Min(x, y) == IF x <= y THEN x ELSE y
Max(x, y) == IF x >= y THEN x ELSE y

(***************************************************************************)
(* process_index_command.  The result is the set of ways the call can end: *)
(* the globals it leaves, the lines it printed, and the message of the     *)
(* exception it raised, if any.                                            *)
(***************************************************************************)
\* variant: the build completes and the flag is not set
BuildIndex_NoFlag(fresh, documents, idx) ==
    {[bm25_instance |-> BM25Indexed(fresh, documents), indexed |-> idx,
      printed |-> <<IndexComplete>>, raised |-> << >>,
      built |-> <<BM25Indexed(fresh, documents)>>]}
    \cup
    {[bm25_instance |-> BM25Partial(fresh, documents, k), indexed |-> idx,
      printed |-> << >>, raised |-> <<m>>, built |-> << >>] :
        k \in 0..Len(documents), m \in BuildFailures}

\* lines 39-42: bm25_instance.index(documents) returns, or raises with the
\* new instance already in the global
BuildIndex(fresh, documents, idx) ==
    {[bm25_instance |-> BM25Indexed(fresh, documents), indexed |-> TRUE,
      printed |-> <<IndexComplete>>, raised |-> << >>,
      built |-> <<BM25Indexed(fresh, documents)>>]}
    \cup
    {[bm25_instance |-> BM25Partial(fresh, documents, k), indexed |-> idx,
      printed |-> << >>, raised |-> <<m>>, built |-> << >>] :
        k \in 0..Len(documents), m \in BuildFailures}

\* variant: the else branch clears the flag
RejectEmpty_Clears(fresh, idx) ==
    {[bm25_instance |-> fresh, indexed |-> FALSE,
      printed |-> <<NoDocumentsResponse>>, raised |-> << >>,
      built |-> << >>]}

\* lines 43-44: the else branch, after the assignment of line 32
RejectEmpty(fresh, idx) ==
    {[bm25_instance |-> fresh, indexed |-> idx,
      printed |-> <<NoDocumentsResponse>>, raised |-> << >>,
      built |-> << >>]}

\* variant: an existing instance is kept and the documents are added to it
process_index_command_Incremental(command_data, inst, idx) ==
    LET documents == Get(command_data, "documents", Arr(<< >>))
        options == Get(command_data, "options", Obj(<< >>))
    IN  IF ~IsObj(options)
        THEN {[bm25_instance |-> inst, indexed |-> idx, printed |-> << >>,
               raised |-> <<AttributeErrorMessage(options)>>,
               built |-> << >>]}
        ELSE
          LET k1 == Get(options, "k1", Num(DefaultK1))
              b == Get(options, "b", Num(DefaultB))
              epsilon == Get(options, "epsilon", Num(DefaultEpsilon))
              fresh == BM25(k1, b, epsilon)
              held == IF inst = None THEN << >> ELSE inst.docs
          IN  IF Truthy(documents)
              THEN BuildIndex(fresh, held \o documents.arr, idx)
              ELSE RejectEmpty(fresh, idx)

process_index_command(command_data, inst, idx) ==
    LET documents == Get(command_data, "documents", Arr(<< >>))
        options == Get(command_data, "options", Obj(<< >>))
    IN  IF ~IsObj(options)
        THEN {[bm25_instance |-> inst, indexed |-> idx, printed |-> << >>,
               raised |-> <<AttributeErrorMessage(options)>>,
               built |-> << >>]}
        ELSE
          LET k1 == Get(options, "k1", Num(DefaultK1))
              b == Get(options, "b", Num(DefaultB))
              epsilon == Get(options, "epsilon", Num(DefaultEpsilon))
              fresh == BM25(k1, b, epsilon)
          IN  IF Truthy(documents)
              THEN BuildIndex(fresh, documents.arr, idx)
              ELSE RejectEmpty(fresh, idx)

(***************************************************************************)
(* process_search_command.                                                 *)
(***************************************************************************)
\* variant: only `bm25_instance is None`
SearchRefused_OnlyNone(inst, idx) == inst = None

\* `if not indexed or bm25_instance is None`
SearchRefused(inst, idx) == ~idx \/ inst = None

\* variant: `if query is None`
QueryIsEmpty_OnlyNull(query) == IsNull(query)

\* `if not query`
QueryIsEmpty(query) == ~Truthy(query)

\* results[:top_k] raises TypeError
SliceRaises(top_k) == ~(IsNum(top_k) \/ IsNull(top_k))

SliceErrorMessage ==
    "slice indices must be integers or None or have an __index__ method"

\* results[:top_k]
Slice(results, top_k) ==
    IF IsNull(top_k) THEN results
    ELSE IF top_k.num >= 0
         THEN SubSeq(results, 1, Min(top_k.num, Len(results)))
         ELSE SubSeq(results, 1, Max(Len(results) + top_k.num, 0))

\* variant: enumerate(..., 1)
FormatResults_OneBased(sliced) ==
    [j \in 1..Len(sliced) |-> [index |-> j, score |-> sliced[j]]]

\* the enumerate loop: entry i of the slice becomes {"index": i, "score": s}
FormatResults(sliced) ==
    [j \in 1..Len(sliced) |-> [index |-> j - 1, score |-> sliced[j]]]

\* variant: no except clause, the failure reaches main's `except Exception`
SearchReply_Uncaught(r, top_k) ==
    IF "raise" \in DOMAIN r THEN GenericErrorResponse(r.raise)
    ELSE IF SliceRaises(top_k) THEN GenericErrorResponse(SliceErrorMessage)
    ELSE SearchResultsResponse(FormatResults(Slice(r.scores, top_k)))

\* the try block, given what bm25_instance.search did
SearchReply(r, top_k) ==
    IF "raise" \in DOMAIN r THEN SearchFailedResponse(r.raise)
    ELSE IF SliceRaises(top_k) THEN SearchFailedResponse(SliceErrorMessage)
    ELSE SearchResultsResponse(FormatResults(Slice(r.scores, top_k)))

process_search_command(command_data, inst, idx) ==
    IF SearchRefused(inst, idx)
    THEN {[printed |-> <<NotIndexedResponse>>, called |-> << >>]}
    ELSE
      LET query == Get(command_data, "query", Str(""))
          top_k == Get(command_data, "topK", Num(DefaultTopK))
      IN  IF QueryIsEmpty(query)
          THEN {[printed |-> <<EmptyQueryResponse>>, called |-> << >>]}
          ELSE {[printed |-> <<SearchReply(r, top_k)>>, called |-> <<r>>] :
                    r \in BM25Search(inst)}

(***************************************************************************)
(* main.                                                                   *)
(***************************************************************************)
Snapshot ==
    [bm25_instance |-> bm25_instance, indexed |-> indexed, nout |-> stdout.n]

Init ==
    /\ pc = "start"
    /\ line = None
    /\ nread = 0
    /\ nblank = 0
    /\ stdout = [n |-> 0, first |-> None, last |-> None]
    /\ bm25_instance = None
    /\ indexed = FALSE
    /\ builds = 0
    /\ lastBuilt = None
    /\ lastCall = None
    /\ pre = [bm25_instance |-> None, indexed |-> FALSE, nout |-> 0]

\* print("RETRIV_READY"); sys.stdout.flush()
\* variant: the loop is entered without the token being written
Startup_Silent ==
    /\ pc = "start"
    /\ pc' = "loop"
    /\ UNCHANGED <<line, nread, nblank, stdout, bm25_instance, indexed,
                   builds, lastBuilt, lastCall, pre>>

\* lines 99-100: print("RETRIV_READY"); sys.stdout.flush()
Startup ==
    /\ pc = "start"
    /\ stdout' = Write(stdout, ReadyToken)
    /\ pc' = "loop"
    /\ UNCHANGED <<line, nread, nblank, bm25_instance, indexed, builds,
                   lastBuilt, lastCall, pre>>

\* `for line in sys.stdin` yields l
Read(l) ==
    /\ pc = "loop"
    /\ nread < MaxLines
    /\ line' = l
    /\ nread' = nread + 1
    /\ nblank' = IF LineKind(l) = "blank" THEN nblank + 1 ELSE nblank
    /\ pre' = Snapshot

\* `if not line: continue`
SkipBlank(l) ==
    /\ Read(l)
    /\ IsBlankLine(l)
    /\ pc' = "loop"
    /\ lastCall' = None
    /\ UNCHANGED <<stdout, bm25_instance, indexed, builds, lastBuilt>>

\* variant: the JSONDecodeError ends the loop
InvalidJson_Fatal(l) ==
    /\ Read(l)
    /\ ~IsBlankLine(l)
    /\ ParseFails(l)
    /\ stdout' = Write(stdout, InvalidJsonResponse)
    /\ pc' = "done"
    /\ lastCall' = None
    /\ UNCHANGED <<bm25_instance, indexed, builds, lastBuilt>>

\* `except json.JSONDecodeError`
InvalidJson(l) ==
    /\ Read(l)
    /\ ~IsBlankLine(l)
    /\ ParseFails(l)
    /\ stdout' = Write(stdout, InvalidJsonResponse)
    /\ pc' = "loop"
    /\ lastCall' = None
    /\ UNCHANGED <<bm25_instance, indexed, builds, lastBuilt>>

\* the line parses
Parsed(l) == ~IsBlankLine(l) /\ ~ParseFails(l)

\* variant: no `except Exception`, the AttributeError ends main
NotACommand_Fatal(l) ==
    /\ Read(l)
    /\ Parsed(l)
    /\ ~IsObj(Parse(l))
    /\ pc' = "done"
    /\ lastCall' = None
    /\ UNCHANGED <<stdout, bm25_instance, indexed, builds, lastBuilt>>

\* variant: the AttributeError is reported as a JSON decoding failure
NotACommand_AsInvalidJson(l) ==
    /\ Read(l)
    /\ Parsed(l)
    /\ ~IsObj(Parse(l))
    /\ stdout' = Write(stdout, InvalidJsonResponse)
    /\ pc' = "loop"
    /\ lastCall' = None
    /\ UNCHANGED <<bm25_instance, indexed, builds, lastBuilt>>

\* command.get raises AttributeError: `except Exception`
NotACommand(l) ==
    /\ Read(l)
    /\ Parsed(l)
    /\ ~IsObj(Parse(l))
    /\ stdout' = Write(stdout,
                    GenericErrorResponse(AttributeErrorMessage(Parse(l))))
    /\ pc' = "loop"
    /\ lastCall' = None
    /\ UNCHANGED <<bm25_instance, indexed, builds, lastBuilt>>

\* variant: command.get("action")
ActionOf_NoDefault(command) == Get(command, "action", Null)

\* command.get("action", "")
ActionOf(command) == Get(command, "action", Str(""))

Dispatched(l, name) ==
    /\ Parsed(l)
    /\ IsObj(Parse(l))
    /\ ActionOf(Parse(l)) = Str(name)

\* variant: the generic catch clears the flag when the handler raised
IndexCommand_ClearsOnError(l) ==
    /\ Read(l)
    /\ Dispatched(l, "index")
    /\ \E o \in process_index_command(Parse(l), bm25_instance, indexed) :
        /\ bm25_instance' = o.bm25_instance
        /\ indexed' = (o.indexed /\ o.raised = << >>)
        /\ stdout' = WriteAll(stdout,
                        o.printed \o [j \in 1..Len(o.raised) |->
                                        GenericErrorResponse(o.raised[j])])
        /\ builds' = builds + Len(o.built)
        /\ lastBuilt' = IF o.built = << >> THEN lastBuilt ELSE o.built[1]
    /\ pc' = "loop"
    /\ lastCall' = None

\* `if action == "index"`, with main's `except Exception` around it
IndexCommand(l) ==
    /\ Read(l)
    /\ Dispatched(l, "index")
    /\ \E o \in process_index_command(Parse(l), bm25_instance, indexed) :
        /\ bm25_instance' = o.bm25_instance
        /\ indexed' = o.indexed
        /\ stdout' = WriteAll(stdout,
                        o.printed \o [j \in 1..Len(o.raised) |->
                                        GenericErrorResponse(o.raised[j])])
        /\ builds' = builds + Len(o.built)
        /\ lastBuilt' = IF o.built = << >> THEN lastBuilt ELSE o.built[1]
    /\ pc' = "loop"
    /\ lastCall' = None

\* variant: a search that raised drops the index
SearchCommand_Resets(l) ==
    /\ Read(l)
    /\ Dispatched(l, "search")
    /\ \E o \in process_search_command(Parse(l), bm25_instance, indexed) :
        /\ stdout' = WriteAll(stdout, o.printed)
        /\ lastCall' = IF o.called = << >> THEN None ELSE o.called[1]
        /\ IF o.called /= << >> /\ "raise" \in DOMAIN o.called[1]
           THEN bm25_instance' = None /\ indexed' = FALSE
           ELSE UNCHANGED <<bm25_instance, indexed>>
    /\ pc' = "loop"
    /\ UNCHANGED <<builds, lastBuilt>>

\* `elif action == "search"`
SearchCommand(l) ==
    /\ Read(l)
    /\ Dispatched(l, "search")
    /\ \E o \in process_search_command(Parse(l), bm25_instance, indexed) :
        /\ stdout' = WriteAll(stdout, o.printed)
        /\ lastCall' = IF o.called = << >> THEN None ELSE o.called[1]
    /\ pc' = "loop"
    /\ UNCHANGED <<bm25_instance, indexed, builds, lastBuilt>>

\* `else: print(json.dumps({"error": f"Unknown action: {action}"}))`
UnknownAction(l) ==
    /\ Read(l)
    /\ Parsed(l)
    /\ IsObj(Parse(l))
    /\ ActionOf(Parse(l)) \notin {Str("index"), Str("search")}
    /\ stdout' = Write(stdout, UnknownActionResponse(ActionOf(Parse(l))))
    /\ pc' = "loop"
    /\ lastCall' = None
    /\ UNCHANGED <<bm25_instance, indexed, builds, lastBuilt>>

\* sys.stdin is exhausted
EndOfInput ==
    /\ pc = "loop"
    /\ pc' = "done"
    /\ UNCHANGED <<line, nread, nblank, stdout, bm25_instance, indexed,
                   builds, lastBuilt, lastCall, pre>>

Next ==
    \/ Startup
    \/ \E l \in Lines : SkipBlank(l)
    \/ \E l \in Lines : InvalidJson(l)
    \/ \E l \in Lines : NotACommand(l)
    \/ \E l \in Lines : IndexCommand(l)
    \/ \E l \in Lines : SearchCommand(l)
    \/ \E l \in Lines : UnknownAction(l)
    \/ EndOfInput

Spec == Init /\ [][Next]_vars

\* main is one synchronous loop over a finite stream: the token is printed
\* once main starts, every handler returns, and the iteration ends once
\* sys.stdin is exhausted.
FairSpec == Spec /\ WF_vars(Startup) /\ WF_vars(EndOfInput)

(***************************************************************************)
(* Properties.  They speak of the latest line read, the response to it and *)
(* the state before it.                                                    *)
(***************************************************************************)
Handled(kind) == line /= None /\ LineKind(line) = kind

Command == line.payload.json

LastResponse == stdout.last

Responded == stdout.n = pre.nout + 1

IsJsonLine(r) == DOMAIN r = {"json"}

IsErrorLine(r, messages) ==
    /\ IsJsonLine(r)
    /\ DOMAIN r.json = {"error"}
    /\ r.json.error \in messages

IsSearchLine(r) ==
    /\ IsJsonLine(r)
    /\ "action" \in DOMAIN r.json
    /\ "results" \in DOMAIN r.json
    /\ r.json.action = "search_results"

IsSearchSuccess(r) == IsSearchLine(r) /\ "error" \notin DOMAIN r.json

IsResponseTo(kind, r) ==
    CASE kind = "malformed" -> IsErrorLine(r, {"Invalid JSON command"})
      [] kind = "notobject" ->
            IsErrorLine(r, {"'list' object has no attribute 'get'",
                            "'NoneType' object has no attribute 'get'"})
      [] kind = "index" ->
            \/ r = Text("INDEX_COMPLETE")
            \/ IsErrorLine(r, {"No documents provided for indexing",
                               "'int' object has no attribute 'get'"}
                              \cup BuildFailures)
      [] kind = "search" -> IsSearchLine(r)
      [] kind = "other" ->
            IsErrorLine(r, {"Unknown action: ", "Unknown action: reset",
                            "Unknown action: None"})
      [] OTHER -> FALSE

DocumentsOf == Get(Command, "documents", Arr(<< >>))
OptionsOf == Get(Command, "options", Obj(<< >>))
QueryOf == Get(Command, "query", Str(""))
TopKOf == Get(Command, "topK", Num(5))

IndexedEmpty == Handled("index") /\ DocumentsOf = Arr(<< >>)
IndexedNonEmpty == Handled("index") /\ DocumentsOf.arr /= << >>

\* C1: after the readiness token the output holds exactly one response line
\* per non-blank line read, written when that line is handled and before the
\* next is read, and of the kind the line calls for; a blank line adds
\* nothing.
C1_OneResponsePerLine ==
    pc /= "start" =>
        /\ stdout.first = Text("RETRIV_READY")
        /\ stdout.n = 1 + (nread - nblank)
        /\ Handled("blank") => stdout.n = pre.nout
        /\ (line /= None /\ ~Handled("blank")) =>
              Responded /\ IsResponseTo(LineKind(line), stdout.last)

C1_Witness ==
    /\ nread = 3
    /\ nblank = 1
    /\ stdout.n = 3
    /\ builds = 1
    /\ Handled("search")
    /\ IsSearchSuccess(stdout.last)

\* C2 as stated: an index command with empty documents never changes the
\* readiness flag and always answers "No documents provided for indexing".
C2_Original ==
    IndexedEmpty =>
        /\ indexed = pre.indexed
        /\ Responded
        /\ LastResponse =
              JsonLine([error |-> "No documents provided for indexing"])

\* C2 amended: an index command with empty documents never changes the
\* readiness flag; it answers "No documents provided for indexing" when its
\* options are absent or a mapping, and the generic error of the failed
\* options.get when they are not.
C2_EmptyDocuments ==
    IndexedEmpty =>
        /\ indexed = pre.indexed
        /\ Responded
        /\ IsObj(OptionsOf) =>
              LastResponse =
                JsonLine([error |-> "No documents provided for indexing"])
        /\ ~IsObj(OptionsOf) =>
              IsErrorLine(LastResponse,
                          {"'int' object has no attribute 'get'"})

C2_Witness ==
    /\ IndexedEmpty
    /\ IsObj(OptionsOf)
    /\ pre.indexed
    /\ indexed
    /\ LastResponse = NoDocumentsResponse

\* C3: an index command with empty documents that follows a successful build
\* leaves the Index object the one of that build.
C3_IndexKept ==
    (IndexedEmpty /\ pre.indexed /\ pre.bm25_instance = lastBuilt) =>
        bm25_instance = lastBuilt

\* C4: a search handled while the readiness flag is false is answered with
\* "No documents have been indexed yet", whatever its query and topK, and
\* bm25_instance.search is not called.
C4_SearchBeforeIndex ==
    (Handled("search") /\ ~pre.indexed) =>
        /\ Responded
        /\ LastResponse =
              JsonLine([action |-> "search_results", results |-> << >>,
                        error |-> "No documents have been indexed yet"])
        /\ lastCall = None

C4_Witness ==
    /\ Handled("search")
    /\ ~pre.indexed
    /\ pre.bm25_instance /= None
    /\ QueryOf = Str("q")
    /\ LastResponse = NotIndexedResponse

\* C5 as stated: an index command with a non-empty documents array always
\* answers INDEX_COMPLETE and leaves the readiness flag true, for every
\* options payload.
C5_Original ==
    IndexedNonEmpty =>
        /\ Responded
        /\ LastResponse = Text("INDEX_COMPLETE")
        /\ indexed

\* C5 amended: an index command with a non-empty documents array and options
\* that are absent or a mapping answers INDEX_COMPLETE and leaves the
\* readiness flag true, unless bm25_instance.index raises; when it raises, or
\* when the options are not a mapping, the one response is the generic error
\* and the readiness flag is what it was.
C5_NonEmptyDocuments ==
    IndexedNonEmpty =>
        /\ Responded
        /\ IsObj(OptionsOf) =>
              \/ LastResponse = Text("INDEX_COMPLETE") /\ indexed
              \/ /\ IsErrorLine(LastResponse, BuildFailures)
                 /\ indexed = pre.indexed
        /\ ~IsObj(OptionsOf) =>
              /\ IsErrorLine(LastResponse,
                             {"'int' object has no attribute 'get'"})
              /\ indexed = pre.indexed

C5_Witness ==
    /\ IndexedNonEmpty
    /\ "options" \in DOMAIN Command.obj
    /\ IsObj(OptionsOf)
    /\ ~pre.indexed
    /\ indexed
    /\ LastResponse = IndexComplete

\* The step that reads a line of the given kind.
Reads(kind) == nread' = nread + 1 /\ LineKind(line') = kind

\* C6: a line that does not parse as JSON is answered with exactly
\* {"error": "Invalid JSON command"}, leaves the Index and the readiness flag
\* as they were, and leaves the loop running.
C6_MalformedLine ==
    [][Reads("malformed") =>
          /\ stdout'.n = stdout.n + 1
          /\ stdout'.last = JsonLine([error |-> "Invalid JSON command"])
          /\ bm25_instance' = bm25_instance
          /\ indexed' = indexed
          /\ pc' = "loop"]_vars

C6_Witness ==
    /\ Handled("malformed")
    /\ pre.indexed
    /\ indexed
    /\ pc = "loop"
    /\ nread < MaxLines
    /\ LastResponse = InvalidJsonResponse

\* C7: a command whose action is neither "index" nor "search", a missing
\* action counting as the empty string, is answered with
\* {"error": "Unknown action: <value>"} and changes neither the Index nor
\* the readiness flag.
C7_UnknownAction ==
    Handled("other") =>
        LET value == IF "action" \notin DOMAIN Command.obj THEN ""
                     ELSE IF IsStr(Command.obj.action)
                          THEN Command.obj.action.str
                          ELSE "None"
        IN  /\ Responded
            /\ LastResponse = JsonLine([error |-> "Unknown action: " \o value])
            /\ bm25_instance = pre.bm25_instance
            /\ indexed = pre.indexed

C7_Witness ==
    /\ Handled("other")
    /\ "action" \notin DOMAIN Command.obj
    /\ pre.indexed
    /\ indexed
    /\ LastResponse = JsonLine([error |-> "Unknown action: "])

\* C8: once an index command has succeeded, a search with an empty query is
\* answered with "Empty query provided" and bm25_instance.search is not
\* called.
C8_EmptyQuery ==
    (Handled("search") /\ lastBuilt /= None /\ QueryOf = Str("")) =>
        /\ Responded
        /\ LastResponse =
              JsonLine([action |-> "search_results", results |-> << >>,
                        error |-> "Empty query provided"])
        /\ lastCall = None

C8_Witness ==
    /\ Handled("search")
    /\ lastBuilt /= None
    /\ "query" \in DOMAIN Command.obj
    /\ QueryOf = Str("")
    /\ ~pre.bm25_instance.complete
    /\ LastResponse = EmptyQueryResponse

\* The search just handled ran against an index whose build completed.
SearchedBuiltIndex ==
    /\ Handled("search")
    /\ lastCall /= None
    /\ pre.bm25_instance /= None
    /\ pre.bm25_instance.complete
    /\ IsSearchSuccess(LastResponse)

\* C9: a successful search with topK >= 0 against a built index returns at
\* most topK entries; every entry's index is an ordinal of the documents of
\* the most recent successful index command, no ordinal occurs twice, and
\* every entry's score is the score bm25_instance.search gave that ordinal.
C9_ResultEntries ==
    (SearchedBuiltIndex /\ IsNum(TopKOf) /\ TopKOf.num >= 0) =>
        LET res == LastResponse.json.results
            n == Len(lastBuilt.docs)
        IN  /\ Len(res) <= TopKOf.num
            /\ \A j \in 1..Len(res) :
                  /\ res[j].index \in 0..(n - 1)
                  /\ res[j].score = lastCall.scores[res[j].index + 1]
            /\ \A j, k \in 1..Len(res) :
                  res[j].index = res[k].index => j = k

C9_Witness ==
    /\ SearchedBuiltIndex
    /\ TopKOf = Num(1)
    /\ builds >= 2
    /\ Len(lastBuilt.docs) = 2
    /\ Len(LastResponse.json.results) = 1

\* C10: the entries of a successful search response are in descending order
\* of score.
C10_Descending ==
    SearchedBuiltIndex =>
        LET res == LastResponse.json.results
        IN  \A j \in 1..(Len(res) - 1) : res[j].score >= res[j + 1].score

\* The step that handles a search in which bm25_instance.search raises.
SearchFails ==
    /\ Reads("search")
    /\ lastCall' /= None
    /\ "raise" \in DOMAIN lastCall'

\* C11: when bm25_instance.search raises, the one response is the
\* search_results envelope with empty results and the failure's message,
\* never the generic error object; the Index and the readiness flag are as
\* they were and the loop goes on.
C11_SearchFailureCaught ==
    [][SearchFails =>
          /\ stdout'.n = stdout.n + 1
          /\ stdout'.last =
                JsonLine([action |-> "search_results", results |-> << >>,
                          error |-> lastCall'.raise])
          /\ bm25_instance' = bm25_instance
          /\ indexed' = indexed
          /\ pc' = "loop"]_vars

C11_Witness ==
    /\ Handled("search")
    /\ lastCall = [raise |-> "search failed"]
    /\ pre.indexed
    /\ pre.bm25_instance.complete
    /\ pc = "loop"
    /\ nread < MaxLines

\* The search just handled took a failure path: refused, empty query,
\* bm25_instance.search raised, or the slice of its results raised.
SearchFailurePath ==
    \/ ~pre.indexed
    \/ pre.bm25_instance = None
    \/ ~Truthy(QueryOf)
    \/ (lastCall /= None /\ "raise" \in DOMAIN lastCall)
    \/ ~(IsNum(TopKOf) \/ IsNull(TopKOf))

\* C12: every response to a search command is an object with action
\* "search_results" and a results field; it has an error field exactly on
\* the failure paths, and its results are empty whenever it has one.
C12_SearchEnvelope ==
    Handled("search") =>
        /\ Responded
        /\ IsSearchLine(LastResponse)
        /\ DOMAIN LastResponse.json \subseteq {"action", "results", "error"}
        /\ ("error" \in DOMAIN LastResponse.json) <=> SearchFailurePath
        /\ ("error" \in DOMAIN LastResponse.json) =>
              LastResponse.json.results = << >>

C12_Witness ==
    /\ Handled("search")
    /\ TopKOf = Str("1")
    /\ lastCall /= None
    /\ "scores" \in DOMAIN lastCall
    /\ Len(lastCall.scores) = 2
    /\ "error" \in DOMAIN LastResponse.json

\* C13: no command is fatal.  The step that reads a line leaves main in its
\* loop, whatever the line does; main leaves the loop only on the end of the
\* input, reading and writing nothing more; and once the input ends main
\* terminates.
C13_NoCommandFatal ==
    /\ [][/\ nread' = nread + 1 => pc' = "loop"
          /\ (pc' = "done" /\ pc /= "done") =>
                /\ pc = "loop"
                /\ nread' = nread
                /\ stdout' = stdout
                /\ bm25_instance' = bm25_instance
                /\ indexed' = indexed]_vars
    /\ <>(pc = "done")

C13_Witness ==
    /\ pc = "done"
    /\ nread = MaxLines
    /\ Handled("index")
    /\ IsErrorLine(LastResponse, BuildFailures)
    /\ stdout.n = 1 + MaxLines

\* The index a command builds when its build completes: its documents under
\* its k1, b and epsilon, the defaults standing in for what it leaves out.
IndexOf(command) ==
    LET o == IF "options" \in DOMAIN command.obj
             THEN command.obj.options.obj ELSE << >>
    IN  [k1 |-> IF "k1" \in DOMAIN o THEN o.k1 ELSE Num(DefaultK1),
         b |-> IF "b" \in DOMAIN o THEN o.b ELSE Num(DefaultB),
         epsilon |-> IF "epsilon" \in DOMAIN o THEN o.epsilon ELSE Num(DefaultEpsilon),
         docs |-> command.obj.documents.arr,
         complete |-> TRUE]

IndexSucceeded == Handled("index") /\ LastResponse = Text("INDEX_COMPLETE")

\* C14: a successful index command leaves the readiness flag true and the
\* Index the one of its own documents and configuration, whatever the state
\* before; issued again in the state it left, it leaves that state as it is.
C14_IndexIdempotent ==
    IndexSucceeded =>
        /\ indexed
        /\ bm25_instance = IndexOf(Command)
        /\ (pre.indexed /\ pre.bm25_instance = IndexOf(Command)) =>
              (bm25_instance = pre.bm25_instance /\ indexed = pre.indexed)

C14_Witness ==
    /\ IndexSucceeded
    /\ builds >= 2
    /\ pre.indexed
    /\ pre.bm25_instance = IndexOf(Command)
    /\ Len(bm25_instance.docs) = 2
    /\ bm25_instance.k1 = Num(200)

\* C15: RETRIV_READY is the first line of the output, it is written before
\* any line is read, and no later write is the token again.
C15_ReadyFirst ==
    /\ [](/\ pc = "start" => (stdout.n = 0 /\ nread = 0)
          /\ pc /= "start" => (stdout.n >= 1 /\ stdout.first = Text("RETRIV_READY")))
    /\ [][/\ nread' /= nread => (stdout.n >= 1 /\ stdout.first = Text("RETRIV_READY"))
          /\ stdout' /= stdout =>
                /\ stdout'.n = stdout.n + 1
                /\ stdout.n >= 1 =>
                      /\ stdout'.first = stdout.first
                      /\ stdout'.last /= Text("RETRIV_READY")]_vars

C15_Witness ==
    /\ stdout.first = Text("RETRIV_READY")
    /\ stdout.n = 1 + MaxLines
    /\ nread = MaxLines
    /\ Handled("search")
    /\ IsSearchSuccess(LastResponse)

\* C16: the readiness flag is true exactly when an Index exists on which a
\* build from a non-empty document sequence has completed.
C16_FlagIffBuilt ==
    indexed <=> /\ bm25_instance /= None
                /\ bm25_instance.complete
                /\ bm25_instance.docs /= << >>

\* C17: an index command answered with the build's failure leaves the Index
\* and the readiness flag as they were before the command.
C17_AllOrNothing ==
    (Handled("index") /\ IsErrorLine(LastResponse, {"index failed"})) =>
        (bm25_instance = pre.bm25_instance /\ indexed = pre.indexed)

\* C18: a search command leaves the Index and the readiness flag as they were
\* before it, whichever of its paths it takes.
C18_SearchReadOnly ==
    Handled("search") =>
        (bm25_instance = pre.bm25_instance /\ indexed = pre.indexed)

C18_Witness ==
    /\ Handled("search")
    /\ lastCall = [raise |-> "search failed"]
    /\ indexed
    /\ Len(bm25_instance.docs) = MaxDocs
    /\ bm25_instance = pre.bm25_instance
    /\ nread = MaxLines

\* C19: the readiness flag never goes from true to false, and once a build
\* has completed no command is answered with the not-indexed refusal.
C19_FlagMonotone ==
    [][/\ indexed => indexed'
       /\ (builds >= 1 /\ stdout' /= stdout) =>
             ~(/\ IsSearchLine(stdout'.last)
               /\ "error" \in DOMAIN stdout'.last.json
               /\ stdout'.last.json.error = "No documents have been indexed yet")]_vars

C19_Witness ==
    /\ Handled("index")
    /\ IsErrorLine(LastResponse, {"index failed"})
    /\ pre.indexed
    /\ indexed
    /\ builds >= 1

NotMappingCommand(l) ==
    \/ LineKind(l) = "notobject"
    \/ /\ LineKind(l) = "index"
       /\ "options" \in DOMAIN l.payload.json.obj
       /\ ~IsObj(l.payload.json.obj.options)

\* C20: a line holding a JSON value that is not an object, or an index command
\* whose options are not a mapping, is answered with exactly one generic
\* error line carrying the AttributeError's text, builds nothing, leaves the
\* Index and the readiness flag as they were, and leaves the loop running.
C20_NotAMapping ==
    [][(nread' = nread + 1 /\ NotMappingCommand(line')) =>
          /\ stdout'.n = stdout.n + 1
          /\ IsErrorLine(stdout'.last,
                         {"'list' object has no attribute 'get'",
                          "'NoneType' object has no attribute 'get'",
                          "'int' object has no attribute 'get'"})
          /\ bm25_instance' = bm25_instance
          /\ indexed' = indexed
          /\ builds' = builds
          /\ pc' = "loop"]_vars

C20_Witness ==
    /\ Handled("index")
    /\ NotMappingCommand(line)
    /\ DocumentsOf.arr /= << >>
    /\ IsErrorLine(LastResponse, {"'int' object has no attribute 'get'"})
    /\ pre.indexed
    /\ bm25_instance = pre.bm25_instance

=============================================================================
